---- MODULE Spec2Model ----
(***************************************************************************)
(* Verification model of the media portal's client-side query pipeline     *)
(* (client/src/pages/Home.tsx): catalog load, curated "best sellers" index, *)
(* filter predicate, sort comparator and the handlers that change the      *)
(* query state, the memoised renders that follow every state change and   *)
(* the exceptions a render can throw on a document it does not expect.     *)
(*                                                                         *)
(* A JavaScript string is modelled as the sequence of its UTF-16 code      *)
(* units (ASCII range), so that case folding, substring search, regular-   *)
(* expression scanning and the ordering of < on strings are computed as    *)
(* the engine computes them.  An array is a sequence; null is the empty    *)
(* tuple Null and a non-null object x is the one-element tuple <<x>>.      *)
(***************************************************************************)
EXTENDS Integers, Sequences, FiniteSets, TLC

\* ------------------------------------------------------------------ bounds
\* At most MaxActive controls (the eight filter dimensions, the sort order, the
\* view mode) are away from their initial position at once.
MaxActive == 2
\* At most MaxSelected check boxes are ticked in one facet (genres, regions).
MaxSelected == 2

\* ------------------------------------------------------- program constants
DefaultPriceMin == 0
DefaultPriceMax == 85000
TatSentinel == 999
DaysPerWeek == 7
DaysPerMonth == 30

\* ------------------------------------------------------------ string data
sEmpty == <<>>
sForbes == <<70, 111, 114, 98, 101, 115>>  \* "Forbes"
sWired == <<87, 105, 114, 101, 100>>  \* "Wired"
sBBC == <<66, 66, 67>>  \* "BBC"
sVentureBeat == <<86, 101, 110, 116, 117, 114, 101, 66, 101, 97, 116>>  \* "VentureBeat"
sVenture_Beat == <<86, 101, 110, 116, 117, 114, 101, 32, 66, 101, 97, 116>>  \* "Venture Beat"
sApple == <<97, 112, 112, 108, 101>>  \* "apple"
sZed == <<90, 101, 100>>  \* "Zed"
sZED == <<90, 69, 68>>  \* "ZED"
sBusiness == <<66, 117, 115, 105, 110, 101, 115, 115>>  \* "Business"
sTech == <<84, 101, 99, 104>>  \* "Tech"
sNews == <<78, 101, 119, 115>>  \* "News"
sUSA == <<85, 83, 65>>  \* "USA"
sUK == <<85, 75>>  \* "UK"
sUk == <<117, 107>>  \* "uk"
s3days == <<51, 32, 100, 97, 121, 115>>  \* "3 days"
s2weeks == <<50, 32, 119, 101, 101, 107, 115>>  \* "2 weeks"
s1month == <<49, 32, 109, 111, 110, 116, 104>>  \* "1 month"
s40months == <<52, 48, 32, 109, 111, 110, 116, 104, 115>>  \* "40 months"
sASAP == <<65, 83, 65, 80>>  \* "ASAP"
sSameDay == <<83, 97, 109, 101, 32, 68, 97, 121>>  \* "Same Day"
s10Days == <<49, 48, 32, 68, 97, 121, 115>>  \* "10 Days"
sWeekdays == <<50, 32, 119, 101, 101, 107, 100, 97, 121, 115>>  \* "2 weekdays"
sTermB == <<66>>  \* "B"
sTermBu == <<66, 117>>  \* "Bu"
sFORBES == <<70, 79, 82, 66, 69, 83>>  \* "FORBES"
sVentureDashBeat == <<86, 101, 110, 116, 117, 114, 101, 45, 66, 101, 97, 116>>  \* "Venture-Beat"
sRandB == <<82, 38, 66>>  \* "R&B"
sRollingAmpStone == <<82, 111, 108, 108, 105, 110, 103, 32, 38, 32, 83, 116, 111, 110, 101>>  \* "Rolling & Stone"
sRollingAndStone == <<114, 111, 108, 108, 105, 110, 103, 32, 97, 110, 100, 32, 115, 116, 111, 110, 101>>  \* "rolling and stone"
sPaddedName == <<32, 32, 84, 111, 112, 49, 48, 32, 32, 78, 101, 119, 115, 45, 68, 101, 115, 107, 32>>  \* "  Top10  News-Desk "
sDay == <<100, 97, 121>>  \* "day"
sWeek == <<119, 101, 101, 107>>  \* "week"
sMonth == <<109, 111, 110, 116, 104>>  \* "month"
sAnd == <<97, 110, 100>>  \* "and"
sPunctuation == <<63, 33>>  \* "?!"

\* ---------------------------------------------------------- JS primitives
Null == <<>>

IsUpper(c) == c \in 65..90
IsLower(c) == c \in 97..122
IsDigit(c) == c \in 48..57

\* String.prototype.toLowerCase on ASCII code units.
ToLowerCase(s) == [i \in 1..Len(s) |-> IF IsUpper(s[i]) THEN s[i] + 32 ELSE s[i]]

\* String.prototype.includes: t occurs in s as a contiguous substring.
StrIncludes(s, t) ==
  \E i \in 0..(Len(s) - Len(t)) : \A k \in 1..Len(t) : s[i + k] = t[k]

\* Array.prototype.includes (strict equality of the elements).
ArrIncludes(arr, x) == \E i \in 1..Len(arr) : arr[i] = x

\* The relational operator < on two strings: code-unit lexicographic order.
StrLess(a, b) ==
  \E k \in 1..(Len(b)) :
    /\ \A j \in 1..(k - 1) : j <= Len(a) /\ a[j] = b[j]
    /\ (k > Len(a) \/ a[k] < b[k])

\* lower.match(/\d+/): the start of the first run of digits, 0 when none.
FirstDigitPos(s) ==
  IF \E i \in 1..Len(s) : IsDigit(s[i])
  THEN CHOOSE i \in 1..Len(s) : IsDigit(s[i]) /\ \A j \in 1..(i - 1) : ~IsDigit(s[j])
  ELSE 0

RECURSIVE DigitRunEnd(_, _)
DigitRunEnd(s, i) ==
  IF i < Len(s) /\ IsDigit(s[i + 1]) THEN DigitRunEnd(s, i + 1) ELSE i

\* parseInt of a string of decimal digits s[from..to].
RECURSIVE ParseDigits(_, _, _)
ParseDigits(s, from, to) ==
  IF to < from THEN 0
  ELSE ParseDigits(s, from, to - 1) * 10 + (s[to] - 48)

\* parseInt(lower.match(/\d+/)[0]); only used when a digit exists.
FirstInteger(s) ==
  LET p == FirstDigitPos(s) IN ParseDigits(s, p, DigitRunEnd(s, p))

IsSpace(c) == c = 32 \/ c \in 9..13

\* .replace(/([a-z])([A-Z])/g, "$1 $2"): a space at every lower->upper boundary.
RECURSIVE SplitCamel(_, _)
SplitCamel(s, i) ==
  IF i > Len(s) THEN <<>>
  ELSE IF i < Len(s) /\ IsLower(s[i]) /\ IsUpper(s[i + 1])
       THEN <<s[i], 32>> \o SplitCamel(s, i + 1)
       ELSE <<s[i]>> \o SplitCamel(s, i + 1)

\* String.prototype.trim.
RECURSIVE TrimStart(_)
TrimStart(s) ==
  IF s # <<>> /\ IsSpace(s[1]) THEN TrimStart(Tail(s)) ELSE s

RECURSIVE TrimEnd(_)
TrimEnd(s) ==
  IF s # <<>> /\ IsSpace(s[Len(s)]) THEN TrimEnd(SubSeq(s, 1, Len(s) - 1)) ELSE s

Trim(s) == TrimEnd(TrimStart(s))

\* .replace(/&/g, "and")
RECURSIVE ReplaceAmp(_, _)
ReplaceAmp(s, i) ==
  IF i > Len(s) THEN <<>>
  ELSE IF s[i] = 38 THEN sAnd \o ReplaceAmp(s, i + 1)
       ELSE <<s[i]>> \o ReplaceAmp(s, i + 1)

\* .replace(/[^a-z0-9]+/g, " "): every maximal run outside a-z0-9 becomes one space.
NonAlnum(c) == ~(IsLower(c) \/ IsDigit(c))

RECURSIVE ReplaceNonAlnumRuns(_, _)
ReplaceNonAlnumRuns(s, i) ==
  IF i > Len(s) THEN <<>>
  ELSE IF NonAlnum(s[i])
       THEN (IF i > 1 /\ NonAlnum(s[i - 1]) THEN <<>> ELSE <<32>>)
            \o ReplaceNonAlnumRuns(s, i + 1)
       ELSE <<s[i]>> \o ReplaceNonAlnumRuns(s, i + 1)

\* .replace(/\s+/g, " "): every maximal run of white space becomes one space.
RECURSIVE CollapseSpaces(_, _)
CollapseSpaces(s, i) ==
  IF i > Len(s) THEN <<>>
  ELSE IF IsSpace(s[i])
       THEN (IF i > 1 /\ IsSpace(s[i - 1]) THEN <<>> ELSE <<32>>)
            \o CollapseSpaces(s, i + 1)
       ELSE <<s[i]>> \o CollapseSpaces(s, i + 1)

\* normalizeName without the replacement of the ampersand.
normalizeName_KeepsAmpersand(s) ==
  LET camel == SplitCamel(s, 1)
      lower == ToLowerCase(Trim(camel))
      alnum == ReplaceNonAlnumRuns(lower, 1)
  IN Trim(CollapseSpaces(alnum, 1))

normalizeName(s) ==
  LET camel == SplitCamel(s, 1)
      lower == ToLowerCase(Trim(camel))
      anded == ReplaceAmp(lower, 1)
      alnum == ReplaceNonAlnumRuns(anded, 1)
  IN Trim(CollapseSpaces(alnum, 1))

\* parseTAT with the week test ahead of the day test.
parseTAT_WeekFirst(tat) ==
  IF tat = <<>> THEN TatSentinel
  ELSE LET lower == ToLowerCase(tat)
           hasNum == FirstDigitPos(lower) # 0
       IN IF StrIncludes(lower, sWeek)
          THEN (IF hasNum THEN FirstInteger(lower) * DaysPerWeek ELSE DaysPerWeek)
          ELSE IF StrIncludes(lower, sDay)
          THEN (IF hasNum THEN FirstInteger(lower) ELSE 1)
          ELSE IF StrIncludes(lower, sMonth)
          THEN (IF hasNum THEN FirstInteger(lower) * DaysPerMonth ELSE DaysPerMonth)
          ELSE TatSentinel

\* Approximate days of a turnaround text (the sort key of the tat column).
parseTAT(tat) ==
  IF tat = <<>> THEN TatSentinel
  ELSE LET lower == ToLowerCase(tat)
           hasNum == FirstDigitPos(lower) # 0
       IN IF StrIncludes(lower, sDay)
          THEN (IF hasNum THEN FirstInteger(lower) ELSE 1)
          ELSE IF StrIncludes(lower, sWeek)
          THEN (IF hasNum THEN FirstInteger(lower) * DaysPerWeek ELSE DaysPerWeek)
          ELSE IF StrIncludes(lower, sMonth)
          THEN (IF hasNum THEN FirstInteger(lower) * DaysPerMonth ELSE DaysPerMonth)
          ELSE TatSentinel

\* ------------------------------------------------------------ the inputs
\* interface Publication (the fields the pipeline reads).
Pub(id, name, genres, price, da, tat, region, sp, ix, df) ==
  [id |-> id, name |-> name, genres |-> genres, price |-> price, da |-> da,
   tat |-> tat, region |-> region, sponsored |-> sp, indexed |-> ix,
   do_follow |-> df]

\* The three-record catalog of the end-to-end scenario.
ScenarioCatalog ==
  [publications |->
     << Pub(1, sForbes, <<sBusiness>>, 5000, 90, s3days,   sUSA, TRUE,  TRUE,  FALSE),
        Pub(2, sWired,  <<sTech>>,     3000, 90, s2weeks,  sUSA, FALSE, FALSE, TRUE),
        Pub(3, sBBC,    <<sNews>>,     0,    0,  sSameDay, sUK,  FALSE, TRUE,  TRUE) >>,
   filters |-> [genres |-> <<sBusiness, sNews, sTech>>, regions |-> <<sUK, sUSA>>]]

\* A catalog with equal sort keys, mixed case, several genre tags per record,
\* an empty region, empty / unparseable turnaround texts and a turnaround of
\* more days than the value parseTAT gives an empty text.
MixedCatalog ==
  [publications |->
     << Pub(11, sVentureBeat,  <<sTech, sBusiness>>, 3000,  80, s40months, sUSA,   FALSE, TRUE,  TRUE),
        Pub(12, sApple,        <<sNews>>,            3000,  0,  sASAP,     sUk,    TRUE,  TRUE,  FALSE),
        Pub(13, sZed,          <<>>,                 85000, 80, sEmpty,    sEmpty, FALSE, FALSE, FALSE),
        Pub(14, sVenture_Beat, <<sTech>>,            0,     50, s10Days,   sUSA,   TRUE,  FALSE, TRUE),
        Pub(15, sZED,          <<sBusiness>>,        5000,  50, sWeekdays, sUk,    TRUE,  TRUE,  TRUE) >>,
   filters |-> [genres |-> <<sBusiness, sNews, sTech>>, regions |-> <<sUSA, sUk>>]]

\* What fetch('/table_data_complete.json') may deliver.
Catalogs == {ScenarioCatalog, MixedCatalog}

\* A JSON object that lacks a key is a record without that field: reading the
\* key gives undefined.
HasKey(obj, k) == k \in DOMAIN obj

\* A catalog without records.
EmptyCatalog ==
  [publications |-> <<>>, filters |-> [genres |-> <<>>, regions |-> <<>>]]

\* A catalog whose second record has no name.
SparseCatalog ==
  [publications |->
     << Pub(21, sBBC, <<sNews>>, 0, 0, sSameDay, sUK, FALSE, TRUE, TRUE),
        [id |-> 22, genres |-> <<sNews>>, price |-> 3000, da |-> 50, tat |-> s3days,
         region |-> sUK, sponsored |-> FALSE, indexed |-> TRUE, do_follow |-> TRUE] >>,
   filters |-> [genres |-> <<sNews>>, regions |-> <<sUK>>]]

\* Documents that parse as JSON but lack a top-level key.
NoPublicationsDocument == [filters |-> [genres |-> <<sNews>>, regions |-> <<sUK>>]]
NoFiltersDocument ==
  [publications |-> << Pub(31, sBBC, <<sNews>>, 0, 0, sSameDay, sUK, FALSE, TRUE, TRUE) >>]

\* A catalog whose record without name is priced above the default price
\* range, so that it is not drawn until the query is changed.
HiddenSparseCatalog ==
  [publications |->
     << Pub(51, sBBC, <<sNews>>, 0, 0, sSameDay, sUK, FALSE, TRUE, TRUE),
        [id |-> 52, genres |-> <<sNews>>, price |-> 90000, da |-> 50, tat |-> s3days,
         region |-> sUK, sponsored |-> FALSE, indexed |-> TRUE, do_follow |-> TRUE] >>,
   filters |-> [genres |-> <<sNews>>, regions |-> <<sUK>>]]

\* A catalog with a record priced above the top of the price slider.
PremiumCatalog ==
  [publications |->
     << Pub(41, sForbes, <<sBusiness>>, 90000, 95, s3days, sUSA, FALSE, TRUE, TRUE),
        Pub(42, sBBC, <<sNews>>, 3000, 90, s2weeks, sUK, FALSE, TRUE, TRUE) >>,
   filters |-> [genres |-> <<sBusiness, sNews>>, regions |-> <<sUSA, sUK>>]]

\* What else the fetch may deliver: response.json() resolves with whatever the
\* body parses to and setData takes it as it is.
Documents == {EmptyCatalog, SparseCatalog, HiddenSparseCatalog,
              NoPublicationsDocument, NoFiltersDocument, PremiumCatalog}

\* What fetch('/best_sellers.json') may deliver in json.names.
CuratedLists == { <<sFORBES, sVentureDashBeat, sRandB>> }

\* Texts the user may have in the search box.
\* Bodies of /best_sellers.json as JSON.parse returns them, written with the
\* JSON type of each value: an array is [array |-> its elements], a string is
\* [string |-> its text], a number is [number |-> its value]; an object is a
\* record of its keys.  In order: the list the converter writes, an empty
\* list, an object without names, names that is a string, a list with an
\* entry of punctuation only, and a list with an entry that is a number.
CuratedDocuments ==
  << [names |-> [array |-> << [string |-> sFORBES], [string |-> sRandB] >>]],
     [names |-> [array |-> <<>>]],
     [version |-> [number |-> 1]],
     [names |-> [string |-> sFORBES]],
     [names |-> [array |-> << [string |-> sFORBES], [string |-> sPunctuation] >>]],
     [names |-> [array |-> << [string |-> sFORBES], [number |-> 5] >>]] >>

SearchTerms == {sEmpty, sTermB, sTermBu}

\* Positions of the two price sliders (min="0" max="85000").
PriceStops == {0, 3000, 85000}

\* Keys of Publication that handleSort is used with, and the two directions.
SortColumns == {"price", "name", "tat"}
StringColumns == {"region", "name", "tat"}
SortDirections == {"asc", "desc"}

\* ---------------------------------------------------------------- state
VARIABLES data, loading, searchTerm, selectedGenres, selectedRegions,
          selectedSponsored, selectedIndexed, selectedDoFollow,
          priceMin, priceMax, sortColumn, sortDirection,
          viewMode, bestSellerSet, bestSellerLoading, bestSellerError, bsPc,
          memoDeps, crashed,
          fetchesIssued, resetWhileFetching, catalogArray

vars == <<data, loading, searchTerm, selectedGenres, selectedRegions,
          selectedSponsored, selectedIndexed, selectedDoFollow,
          priceMin, priceMax, sortColumn, sortDirection,
          viewMode, bestSellerSet, bestSellerLoading, bestSellerError, bsPc,
          memoDeps, crashed,
          fetchesIssued, resetWhileFetching, catalogArray>>

filterVars == <<searchTerm, selectedGenres, selectedRegions, selectedSponsored,
                selectedIndexed, selectedDoFollow, priceMin, priceMax>>
sortVars == <<sortColumn, sortDirection>>
\* The curated view: its React state, the position of the pending button
\* handler (bsPc), the number of requests for /best_sellers.json sent so far
\* (fetchesIssued), and whether 'Reset' was used while the pending handler
\* waits for its request (resetWhileFetching).
curatedVars == <<viewMode, bestSellerSet, bestSellerLoading, bestSellerError, bsPc,
                 fetchesIssued, resetWhileFetching>>
loadVars == <<data, loading>>

\* Array.prototype.filter: kept is the set of indices whose element the
\* callback accepts; the result holds those elements in their order.
FilterSeq(arr, kept) ==
  LET Nth(k) == CHOOSE i \in kept : Cardinality({j \in kept : j <= i}) = k
  IN [k \in 1..Cardinality(kept) |-> arr[Nth(k)]]

\* ------------------------------------------------------- derived values
\* The component's state as one render sees it: the hooks below are functions
\* of this snapshot.
Render ==
  [data |-> data, searchTerm |-> searchTerm, selectedGenres |-> selectedGenres,
   selectedRegions |-> selectedRegions, selectedSponsored |-> selectedSponsored,
   selectedIndexed |-> selectedIndexed, selectedDoFollow |-> selectedDoFollow,
   priceMin |-> priceMin, priceMax |-> priceMax, sortColumn |-> sortColumn,
   sortDirection |-> sortDirection, viewMode |-> viewMode,
   bestSellerSet |-> bestSellerSet]

\* The snapshot of the render that follows a step.
NextRender ==
  [data |-> data', searchTerm |-> searchTerm', selectedGenres |-> selectedGenres',
   selectedRegions |-> selectedRegions', selectedSponsored |-> selectedSponsored',
   selectedIndexed |-> selectedIndexed', selectedDoFollow |-> selectedDoFollow',
   priceMin |-> priceMin', priceMax |-> priceMax', sortColumn |-> sortColumn',
   sortDirection |-> sortDirection', viewMode |-> viewMode',
   bestSellerSet |-> bestSellerSet']

\* basePublications that looks the raw name up in the index.
basePublications_RawNameLookup(r) ==
  IF r.data = Null THEN <<>>
  ELSE IF r.viewMode # "bestSellers" THEN r.data[1].publications
  ELSE IF r.bestSellerSet = Null THEN r.data[1].publications
  ELSE LET pubs == r.data[1].publications
       IN FilterSeq(pubs, {i \in 1..Len(pubs) : pubs[i].name \in r.bestSellerSet[1]})

\* basePublications that restricts to the curated set whatever the view mode.
basePublications_IgnoresViewMode(r) ==
  IF r.data = Null THEN <<>>
  ELSE IF r.bestSellerSet = Null THEN r.data[1].publications
  ELSE LET pubs == r.data[1].publications
       IN FilterSeq(pubs, {i \in 1..Len(pubs) :
                             normalizeName(pubs[i].name) \in r.bestSellerSet[1]})

\* useMemo basePublications: the records the filters run over.
basePublications(r) ==
  IF r.data = Null THEN <<>>
  ELSE IF r.viewMode # "bestSellers" THEN r.data[1].publications
  ELSE IF r.bestSellerSet = Null THEN r.data[1].publications
  ELSE LET pubs == r.data[1].publications
       IN FilterSeq(pubs, {i \in 1..Len(pubs) :
                             normalizeName(pubs[i].name) \in r.bestSellerSet[1]})

baseCount(r) == Len(basePublications(r))

\* bestSellerMissingCount without the test of the view mode.
bestSellerMissingCount_IgnoresViewMode(r) ==
  IF r.bestSellerSet = Null \/ r.data = Null THEN 0
  ELSE LET all == {normalizeName(r.data[1].publications[i].name) :
                      i \in 1..Len(r.data[1].publications)}
       IN Cardinality({n \in r.bestSellerSet[1] : n \notin all})

\* useMemo bestSellerMissingCount.
bestSellerMissingCount(r) ==
  IF r.viewMode # "bestSellers" \/ r.bestSellerSet = Null \/ r.data = Null THEN 0
  ELSE LET all == {normalizeName(r.data[1].publications[i].name) :
                      i \in 1..Len(r.data[1].publications)}
       IN Cardinality({n \in r.bestSellerSet[1] : n \notin all})

\* The stages of the filter callback, in the order of its early returns.
MatchesSearch(r, pub) ==
  r.searchTerm # <<>> =>
    LET term == ToLowerCase(r.searchTerm)
        matchesName == StrIncludes(ToLowerCase(pub.name), term)
        matchesGenre == \E i \in 1..Len(pub.genres) :
                           StrIncludes(ToLowerCase(pub.genres[i]), term)
    IN matchesName \/ matchesGenre

\* Genre stage that demands every ticked genre (AND semantics).
MatchesGenres_AllSelected(r, pub) ==
  Len(r.selectedGenres) > 0 =>
    \A i \in 1..Len(r.selectedGenres) : ArrIncludes(pub.genres, r.selectedGenres[i])

\* Genre stage that looks at the most recently ticked genre only.
MatchesGenres_LastOnly(r, pub) ==
  Len(r.selectedGenres) > 0 =>
    ArrIncludes(pub.genres, r.selectedGenres[Len(r.selectedGenres)])

MatchesGenres(r, pub) ==
  Len(r.selectedGenres) > 0 =>
    \E i \in 1..Len(r.selectedGenres) : ArrIncludes(pub.genres, r.selectedGenres[i])

MatchesRegions(r, pub) ==
  Len(r.selectedRegions) > 0 => ArrIncludes(r.selectedRegions, pub.region)

\* Price stage with exclusive bounds.
MatchesPrice_Exclusive(r, pub) == ~(pub.price <= r.priceMin \/ pub.price >= r.priceMax)

\* Price stage with the two bounds swapped.
MatchesPrice_SwappedBounds(r, pub) == ~(pub.price < r.priceMax \/ pub.price > r.priceMin)

MatchesPrice(r, pub) == ~(pub.price < r.priceMin \/ pub.price > r.priceMax)

MatchesSponsored(r, pub) ==
  r.selectedSponsored # "" => pub.sponsored = (r.selectedSponsored = "Yes")

\* Indexed stage that takes any set toggle for 'Yes'.
MatchesIndexed_NoIsYes(r, pub) ==
  r.selectedIndexed # "" => pub.indexed = TRUE

MatchesIndexed(r, pub) ==
  r.selectedIndexed # "" => pub.indexed = (r.selectedIndexed = "Yes")

MatchesDoFollow(r, pub) ==
  r.selectedDoFollow # "" => pub.do_follow = (r.selectedDoFollow = "Yes")

\* Filter callback without the region stage.
PassesFilter_NoRegionStage(r, pub) ==
  /\ MatchesSearch(r, pub)
  /\ MatchesGenres(r, pub)
  /\ MatchesPrice(r, pub)
  /\ MatchesSponsored(r, pub)
  /\ MatchesIndexed(r, pub)
  /\ MatchesDoFollow(r, pub)

\* The callback of basePublications.filter: true iff no stage returned false.
PassesFilter(r, pub) ==
  /\ MatchesSearch(r, pub)
  /\ MatchesGenres(r, pub)
  /\ MatchesRegions(r, pub)
  /\ MatchesPrice(r, pub)
  /\ MatchesSponsored(r, pub)
  /\ MatchesIndexed(r, pub)
  /\ MatchesDoFollow(r, pub)

\* a[sortColumn] with null / undefined replaced by ''.
SortValue(r, a) == IF HasKey(a, r.sortColumn) THEN a[r.sortColumn] ELSE <<>>

\* Comparison that does not lower-case strings.
SortLess_CaseSensitive(r, a, b) ==
  IF r.sortColumn = "tat" THEN parseTAT(SortValue(r, a)) < parseTAT(SortValue(r, b))
  ELSE IF r.sortColumn \in StringColumns
       THEN StrLess(SortValue(r, a), SortValue(r, b))
       ELSE a[r.sortColumn] < b[r.sortColumn]

\* aVal < bVal after the comparator's conversions (tat parsed to days, other
\* strings lower-cased, numbers as they are).
SortLess(r, a, b) ==
  IF r.sortColumn = "tat" THEN parseTAT(SortValue(r, a)) < parseTAT(SortValue(r, b))
  ELSE IF r.sortColumn \in StringColumns
       THEN StrLess(ToLowerCase(SortValue(r, a)), ToLowerCase(SortValue(r, b)))
       ELSE a[r.sortColumn] < b[r.sortColumn]

\* Comparator that ignores the sort direction.
compare_IgnoresDirection(r, a, b) ==
  IF SortLess(r, a, b) THEN -1
  ELSE IF SortLess(r, b, a) THEN 1
  ELSE 0

\* The comparator handed to filtered.sort.
compare(r, a, b) ==
  IF SortLess(r, a, b) THEN (IF r.sortDirection = "asc" THEN -1 ELSE 1)
  ELSE IF SortLess(r, b, a) THEN (IF r.sortDirection = "asc" THEN 1 ELSE -1)
  ELSE 0

\* A sort that is not stable: tied elements come out in reverse input order.
ArraySort_Unstable(r, arr) ==
  LET n == Len(arr)
      GoesBefore(j, i) ==
        LET c == compare(r, arr[j], arr[i]) IN c < 0 \/ (c = 0 /\ j > i)
      Rank(i) == Cardinality({j \in 1..n : GoesBefore(j, i)}) + 1
  IN [k \in 1..n |-> arr[CHOOSE i \in 1..n : Rank(i) = k]]

\* filtered.sort(comparator): Array.prototype.sort is a stable sort
\* (ECMAScript 2019).  The element at index i of the input lands behind every
\* element the comparator puts before it and behind every earlier element it
\* ties with.
ArraySort(r, arr) ==
  LET n == Len(arr)
      GoesBefore(j, i) ==
        LET c == compare(r, arr[j], arr[i]) IN c < 0 \/ (c = 0 /\ j < i)
      Rank(i) == Cardinality({j \in 1..n : GoesBefore(j, i)}) + 1
  IN [k \in 1..n |-> arr[CHOOSE i \in 1..n : Rank(i) = k]]

\* filteredPublications filtering the whole catalog instead of the base set.
filteredPublications_FiltersCatalog(r) ==
  IF r.data = Null THEN <<>>
  ELSE LET pubs == r.data[1].publications
           filtered == FilterSeq(pubs, {i \in 1..Len(pubs) : PassesFilter(r, pubs[i])})
       IN ArraySort(r, filtered)

\* useMemo filteredPublications: filter the base set, then sort the copy.
filteredPublications(r) ==
  IF r.data = Null THEN <<>>
  ELSE LET base == basePublications(r)
           filtered == FilterSeq(base, {i \in 1..Len(base) : PassesFilter(r, base[i])})
       IN ArraySort(r, filtered)

\* The filter callback throws a TypeError on pub: with a search text it calls
\* pub.name.toLowerCase() and pub.genres.some(), with ticked genres it calls
\* pub.genres.includes().
FilterThrows(r, pub) ==
  \/ r.searchTerm # <<>> /\ (~HasKey(pub, "name") \/ ~HasKey(pub, "genres"))
  \/ r.searchTerm = <<>> /\ r.selectedGenres # <<>> /\ ~HasKey(pub, "genres")

\* The hooks that compute the visible result throw (lines 246-311):
\* basePublications is undefined (basePublications.length), normalizeName is
\* handed an undefined name (s.replace), or the filter callback throws.  The
\* records of Documents carry every field but name, on which the sort
\* comparator does not throw.
QueryThrows(r) ==
  /\ r.data # Null
  /\ \/ ~HasKey(r.data[1], "publications")
     \/ /\ r.viewMode = "bestSellers"
        /\ r.bestSellerSet # Null
        /\ \E i \in 1..Len(r.data[1].publications) :
             ~HasKey(r.data[1].publications[i], "name")
     \/ LET base == basePublications(r)
        IN \E i \in 1..Len(base) : FilterThrows(r, base[i])

\* Drawing the card or the table row of pub throws: LogoDisplay calls
\* alt.split on the name, and the row reads pub.genres.length and calls
\* pub.price.toLocaleString().
RowThrows(pub) ==
  ~HasKey(pub, "name") \/ ~HasKey(pub, "genres") \/ ~HasKey(pub, "price")

\* A render of the component throws: in the hooks of the query, or while
\* drawing a row of the visible result.  (data.filters is read only inside an
\* opened Genres or Regions group: see setExpandedFilters.)
RenderThrows(r) ==
  IF QueryThrows(r) THEN TRUE
  ELSE /\ r.data # Null
       /\ \E i \in 1..Len(r.data[1].publications) :
            RowThrows(r.data[1].publications[i])
       /\ LET shown == filteredPublications(r)
          IN \E i \in 1..Len(shown) : RowThrows(shown[i])

\* A dependency list without sortDirection.
FilteredDeps_NoSortDirection ==
  {"data", "viewMode", "bestSellerSet", "searchTerm", "selectedGenres",
   "selectedRegions", "priceMin", "priceMax", "selectedSponsored",
   "selectedIndexed", "selectedDoFollow", "sortColumn"}

\* The dependency list of useMemo filteredPublications (basePublications, the
\* fourth entry, changes only with data, viewMode or bestSellerSet).
FilteredDeps ==
  {"data", "viewMode", "bestSellerSet", "searchTerm", "selectedGenres",
   "selectedRegions", "priceMin", "priceMax", "selectedSponsored",
   "selectedIndexed", "selectedDoFollow", "sortColumn", "sortDirection"}

\* The ids of an array of records, in the array's order.
Ids(arr) == [i \in 1..Len(arr) |-> arr[i].id]

\* Array objects of a render.  data.publications is one array object for the
\* life of the page (setData runs once); basePublications and filtered are
\* the variables of lines 246 and 267, and what matters is which object each
\* of them refers to.
CatalogRef == "data.publications"
BaseCopyRef == "basePublications"
FilteredRef == "filtered"
ArrayRefs == {CatalogRef, BaseCopyRef, FilteredRef}

\* The array object basePublications refers to: the [] literal when nothing
\* is loaded, data.publications ITSELF in the view of all records and while
\* there is no curated index, the array data.publications.filter returned
\* otherwise.
basePublicationsRef(r) ==
  IF r.data = Null THEN BaseCopyRef
  ELSE IF r.viewMode # "bestSellers" THEN CatalogRef
  ELSE IF r.bestSellerSet = Null THEN CatalogRef
  ELSE BaseCopyRef

\* Array.prototype.filter returns a newly created array, whatever its
\* receiver is and also when the callback keeps every element.
ArrayFilterRef(receiver) == FilteredRef

\* filtered.sort applied to the array basePublications refers to.
sortedArrayRef_SortsBase(r) == basePublicationsRef(r)

\* The array object the in-place sort of line 314 is called on: filtered,
\* which line 267 bound to the result of basePublications.filter.
sortedArrayRef(r) == ArrayFilterRef(basePublicationsRef(r))

\* The content of every array object once the hook filteredPublications has
\* run on a memory where data.publications holds mem: basePublications is
\* bound, its filter result is stored in a new object, and the sort rewrites
\* the object it is called on.
HeapAfterRender(r, mem) ==
  LET baseRef == basePublicationsRef(r)
      h0 == [ref \in ArrayRefs |->
               IF ref = CatalogRef THEN mem
               ELSE IF ref = baseRef THEN basePublications(r)
               ELSE <<>>]
      base == h0[baseRef]
      h1 == [h0 EXCEPT ![ArrayFilterRef(baseRef)] =
               FilterSeq(base, {i \in 1..Len(base) : PassesFilter(r, base[i])})]
  IN [h1 EXCEPT ![sortedArrayRef(r)] = ArraySort(r, @)]

\* The content of data.publications once the hook has run: what the writes
\* of the render left in that array object.  A hook that throws has not
\* reached the sort.
publicationsAfterRender(r, mem) ==
  IF r.data = Null \/ QueryThrows(r)
  THEN mem
  ELSE HeapAfterRender(r, mem)[CatalogRef]

\* The render that follows every state change: useMemo recomputes
\* filteredPublications when an entry of its dependency list differs from the
\* one it was last computed for and keeps the stored array otherwise; memoDeps
\* is the snapshot the stored array was computed from.  An exception thrown
\* while rendering is not caught anywhere: the page is gone.  catalogArray is
\* the content of the array object data.publications in memory: setData
\* stores the parsed document, and afterwards only the writes of a recomputed
\* hook can change it.
Rerender ==
  /\ crashed' = (crashed \/ RenderThrows(NextRender))
  /\ memoDeps' = IF \E f \in FilteredDeps : NextRender[f] # memoDeps[f]
                 THEN NextRender
                 ELSE memoDeps
  /\ catalogArray' =
       LET mem == IF data' = Null \/ ~HasKey(data'[1], "publications") THEN <<>>
                  ELSE IF data' # data THEN data'[1].publications
                  ELSE catalogArray
       IN IF \E f \in FilteredDeps : NextRender[f] # memoDeps[f]
          THEN publicationsAfterRender(NextRender, mem)
          ELSE mem

\* The array useMemo filteredPublications hands to the table.
memoFiltered == filteredPublications(memoDeps)

\* Number of controls away from their initial position (a bound of the model).
ActiveDims ==
    (IF searchTerm # <<>> THEN 1 ELSE 0)
  + (IF selectedGenres # <<>> THEN 1 ELSE 0)
  + (IF selectedRegions # <<>> THEN 1 ELSE 0)
  + (IF priceMin # DefaultPriceMin THEN 1 ELSE 0)
  + (IF priceMax # DefaultPriceMax THEN 1 ELSE 0)
  + (IF selectedSponsored # "" THEN 1 ELSE 0)
  + (IF selectedIndexed # "" THEN 1 ELSE 0)
  + (IF selectedDoFollow # "" THEN 1 ELSE 0)
  + (IF sortColumn # "price" \/ sortDirection # "desc" THEN 1 ELSE 0)
  + (IF viewMode # "all" \/ bsPc = "fetching" THEN 1 ELSE 0)

WithinBounds ==
  /\ ActiveDims <= MaxActive
  /\ Len(selectedGenres) <= MaxSelected
  /\ Len(selectedRegions) <= MaxSelected

\* The page shows its controls once the loading spinner is gone, and as long
\* as no render has thrown.
UiReady == ~loading /\ ~crashed

\* ---------------------------------------------------------------- Init
Init ==
  /\ data = Null
  /\ loading = TRUE
  /\ searchTerm = <<>>
  /\ selectedGenres = <<>>
  /\ selectedRegions = <<>>
  /\ selectedSponsored = ""
  /\ selectedIndexed = ""
  /\ selectedDoFollow = ""
  /\ priceMin = DefaultPriceMin
  /\ priceMax = DefaultPriceMax
  /\ sortColumn = "price"
  /\ sortDirection = "desc"
  /\ viewMode = "all"
  /\ bestSellerSet = Null
  /\ bestSellerLoading = FALSE
  /\ bestSellerError = Null
  /\ bsPc = "idle"
  /\ crashed = FALSE
  /\ memoDeps = Render
  /\ fetchesIssued = 0
  /\ resetWhileFetching = FALSE
  /\ catalogArray = <<>>

\* -------------------------------------------------------------- actions
\* loadData: the fetch and the JSON parse succeed.
loadDataOk ==
  /\ loading
  /\ \E c \in Catalogs : data' = <<c>>
  /\ loading' = FALSE
  /\ UNCHANGED <<filterVars, sortVars, curatedVars>>
  /\ Rerender

\* loadData: the body parses to a document of Documents.
loadDataUnvalidated ==
  /\ loading
  /\ \E c \in Documents : data' = <<c>>
  /\ loading' = FALSE
  /\ UNCHANGED <<filterVars, sortVars, curatedVars>>
  /\ Rerender

\* loadData: the fetch or the parse throws.
loadDataFail ==
  /\ loading
  /\ loading' = FALSE
  /\ UNCHANGED <<data, filterVars, sortVars, curatedVars>>
  /\ Rerender

\* Search box onChange.
setSearchTerm ==
  /\ UiReady
  /\ \E t \in SearchTerms : searchTerm' = t
  /\ UNCHANGED <<selectedGenres, selectedRegions, selectedSponsored, selectedIndexed,
                 selectedDoFollow, priceMin, priceMax, sortVars, curatedVars, loadVars>>
  /\ Rerender
  /\ WithinBounds'

\* Without(arr, x) is prev.filter((g) => g !== x).
Without(arr, x) == SelectSeq(arr, LAMBDA g : g # x)

toggleGenre ==
  /\ UiReady /\ data # Null /\ HasKey(data[1], "filters")
  /\ \E i \in 1..Len(data[1].filters.genres) :
       LET genre == data[1].filters.genres[i] IN
         selectedGenres' = IF ArrIncludes(selectedGenres, genre)
                           THEN Without(selectedGenres, genre)
                           ELSE Append(selectedGenres, genre)
  /\ UNCHANGED <<searchTerm, selectedRegions, selectedSponsored, selectedIndexed,
                 selectedDoFollow, priceMin, priceMax, sortVars, curatedVars, loadVars>>
  /\ Rerender
  /\ WithinBounds'

toggleRegion ==
  /\ UiReady /\ data # Null /\ HasKey(data[1], "filters")
  /\ \E i \in 1..Len(data[1].filters.regions) :
       LET region == data[1].filters.regions[i] IN
         selectedRegions' = IF ArrIncludes(selectedRegions, region)
                            THEN Without(selectedRegions, region)
                            ELSE Append(selectedRegions, region)
  /\ UNCHANGED <<searchTerm, selectedGenres, selectedSponsored, selectedIndexed,
                 selectedDoFollow, priceMin, priceMax, sortVars, curatedVars, loadVars>>
  /\ Rerender
  /\ WithinBounds'

setPriceMin ==
  /\ UiReady
  /\ \E v \in PriceStops : priceMin' = v
  /\ UNCHANGED <<searchTerm, selectedGenres, selectedRegions, selectedSponsored,
                 selectedIndexed, selectedDoFollow, priceMax, sortVars, curatedVars, loadVars>>
  /\ Rerender
  /\ WithinBounds'

setPriceMax ==
  /\ UiReady
  /\ \E v \in PriceStops : priceMax' = v
  /\ UNCHANGED <<searchTerm, selectedGenres, selectedRegions, selectedSponsored,
                 selectedIndexed, selectedDoFollow, priceMin, sortVars, curatedVars, loadVars>>
  /\ Rerender
  /\ WithinBounds'

\* The radio groups offer 'Yes' and 'No'; only a reset returns a toggle to ''.
setSelectedSponsored ==
  /\ UiReady
  /\ \E v \in {"Yes", "No"} : selectedSponsored' = v
  /\ UNCHANGED <<searchTerm, selectedGenres, selectedRegions, selectedIndexed,
                 selectedDoFollow, priceMin, priceMax, sortVars, curatedVars, loadVars>>
  /\ Rerender
  /\ WithinBounds'

setSelectedIndexed ==
  /\ UiReady
  /\ \E v \in {"Yes", "No"} : selectedIndexed' = v
  /\ UNCHANGED <<searchTerm, selectedGenres, selectedRegions, selectedSponsored,
                 selectedDoFollow, priceMin, priceMax, sortVars, curatedVars, loadVars>>
  /\ Rerender
  /\ WithinBounds'

setSelectedDoFollow ==
  /\ UiReady
  /\ \E v \in {"Yes", "No"} : selectedDoFollow' = v
  /\ UNCHANGED <<searchTerm, selectedGenres, selectedRegions, selectedSponsored,
                 selectedIndexed, priceMin, priceMax, sortVars, curatedVars, loadVars>>
  /\ Rerender
  /\ WithinBounds'

handleSort ==
  /\ UiReady
  /\ Len(filteredPublications(Render)) > 0
  /\ \E column \in SortColumns, direction \in SortDirections :
       /\ sortColumn' = column
       /\ sortDirection' = direction
  /\ UNCHANGED <<filterVars, curatedVars, loadVars>>
  /\ Rerender
  /\ WithinBounds'

ResetFilterVars_KeepsPrice ==
  /\ searchTerm' = <<>>
  /\ selectedGenres' = <<>>
  /\ selectedRegions' = <<>>
  /\ UNCHANGED <<priceMin, priceMax>>
  /\ selectedSponsored' = ""
  /\ selectedIndexed' = ""
  /\ selectedDoFollow' = ""

\* The header of the Genres or of the Regions group is pressed.  Which
\* groups are open is not part of the state: ticking a genre or a region
\* stands for opening its group and ticking the box.  An opened group maps
\* over data?.filters.genres (regions), which throws when the loaded document
\* has no filters.
setExpandedFilters ==
  /\ UiReady
  /\ crashed' = (crashed \/ (data # Null /\ ~HasKey(data[1], "filters")))
  /\ UNCHANGED <<filterVars, sortVars, curatedVars, loadVars, memoDeps, catalogArray>>

\* The assignments of resetFilters.
ResetFilterVars ==
  /\ searchTerm' = <<>>
  /\ selectedGenres' = <<>>
  /\ selectedRegions' = <<>>
  /\ priceMin' = DefaultPriceMin
  /\ priceMax' = DefaultPriceMax
  /\ selectedSponsored' = ""
  /\ selectedIndexed' = ""
  /\ selectedDoFollow' = ""

\* 'Reset Filters', the button of the empty-result panel.
resetFilters ==
  /\ UiReady
  /\ Len(filteredPublications(Render)) = 0
  /\ ResetFilterVars
  /\ UNCHANGED <<sortVars, curatedVars, loadVars>>
  /\ Rerender

\* A Reset that also drops the cached set.
handleResetAll_ClearsIndex ==
  /\ UiReady
  /\ ResetFilterVars
  /\ viewMode' = "all"
  /\ bestSellerError' = Null
  /\ bestSellerSet' = Null
  /\ resetWhileFetching' = (bsPc = "fetching")
  /\ UNCHANGED <<bestSellerLoading, bsPc, fetchesIssued, sortVars, loadVars>>
  /\ Rerender

\* 'Reset' of the filters side bar.
handleResetAll ==
  /\ UiReady
  /\ ResetFilterVars
  /\ viewMode' = "all"
  /\ bestSellerError' = Null
  /\ resetWhileFetching' = (bsPc = "fetching")
  /\ UNCHANGED <<bestSellerSet, bestSellerLoading, bsPc, fetchesIssued,
                 sortVars, loadVars>>
  /\ Rerender

bestSellersClick_AlwaysFetches ==
  /\ UiReady
  /\ ~bestSellerLoading
  /\ bsPc = "idle"
  /\ bestSellerLoading' = TRUE
  /\ bestSellerError' = Null
  /\ bsPc' = "fetching"
  /\ fetchesIssued' = fetchesIssued + 1
  /\ UNCHANGED <<bestSellerSet, viewMode>>
  /\ UNCHANGED <<resetWhileFetching, filterVars, sortVars, loadVars>>
  /\ Rerender
  /\ WithinBounds'

\* 'Best Sellers' pressed (the button is disabled while bestSellerLoading):
\* ensureBestSellersLoaded either returns at once, and the handler goes on to
\* setViewMode, or it starts the fetch and the handler waits for it.
bestSellersClick ==
  /\ UiReady
  /\ ~bestSellerLoading
  /\ bsPc = "idle"
  /\ IF bestSellerSet # Null \/ bestSellerLoading
     THEN /\ viewMode' = "bestSellers"
          /\ UNCHANGED <<bestSellerSet, bestSellerLoading, bestSellerError, bsPc,
                         fetchesIssued>>
     ELSE /\ bestSellerLoading' = TRUE
          /\ bestSellerError' = Null
          /\ bsPc' = "fetching"
          /\ fetchesIssued' = fetchesIssued + 1
          /\ UNCHANGED <<bestSellerSet, viewMode>>
  /\ UNCHANGED <<resetWhileFetching, filterVars, sortVars, loadVars>>
  /\ Rerender
  /\ WithinBounds'

\* The fetch resolves with a names array: build the set, then setViewMode.
bestSellersFetchOk ==
  /\ bsPc = "fetching"
  /\ \E names \in CuratedLists :
       bestSellerSet' = << {normalizeName(names[i]) : i \in 1..Len(names)} >>
  /\ bestSellerLoading' = FALSE
  /\ viewMode' = "bestSellers"
  /\ bsPc' = "idle"
  /\ resetWhileFetching' = FALSE
  /\ UNCHANGED <<bestSellerError, fetchesIssued, filterVars, sortVars, loadVars>>
  /\ Rerender

bestSellersFetchFail_LeavesIndexNull ==
  /\ bsPc = "fetching"
  /\ bestSellerError' = <<"Could not load best sellers list.">>
  /\ bestSellerLoading' = FALSE
  /\ viewMode' = "bestSellers"
  /\ bsPc' = "idle"
  /\ resetWhileFetching' = FALSE
  /\ UNCHANGED <<bestSellerSet, fetchesIssued, filterVars, sortVars, loadVars>>
  /\ Rerender

\* The catch block without the finally block.
bestSellersFetchFail_KeepsLoading ==
  /\ bsPc = "fetching"
  /\ bestSellerError' = <<"Could not load best sellers list.">>
  /\ bestSellerSet' = << {} >>
  /\ viewMode' = "bestSellers"
  /\ bsPc' = "idle"
  /\ resetWhileFetching' = FALSE
  /\ UNCHANGED <<bestSellerLoading, fetchesIssued, filterVars, sortVars, loadVars>>
  /\ Rerender

\* The fetch rejects, the status is not ok, or the body does not parse.
bestSellersFetchFail ==
  /\ bsPc = "fetching"
  /\ bestSellerError' = <<"Could not load best sellers list.">>
  /\ bestSellerSet' = << {} >>
  /\ bestSellerLoading' = FALSE
  /\ viewMode' = "bestSellers"
  /\ bsPc' = "idle"
  /\ resetWhileFetching' = FALSE
  /\ UNCHANGED <<fetchesIssued, filterVars, sortVars, loadVars>>
  /\ Rerender

\* const names = Array.isArray(json?.names) ? json.names : [].
namesOf(json) ==
  IF HasKey(json, "names") /\ HasKey(json.names, "array")
  THEN json.names.array
  ELSE <<>>

\* names.map(normalizeName) calls s.replace on every entry: a TypeError for
\* an entry that is not a string.
BuildThrows(names) == \E i \in 1..Len(names) : ~HasKey(names[i], "string")

\* The fetch resolves with status ok and a body that parses to a document of
\* CuratedDocuments: the set is built inside the try block, and an exception
\* of the build is handled by the catch block like a failed fetch.
bestSellersFetchUnvalidated ==
  /\ bsPc = "fetching"
  /\ \E d \in 1..Len(CuratedDocuments) :
       LET names == namesOf(CuratedDocuments[d])
       IN IF BuildThrows(names)
          THEN /\ bestSellerError' = <<"Could not load best sellers list.">>
               /\ bestSellerSet' = << {} >>
          ELSE /\ bestSellerSet' =
                    << {normalizeName(names[i].string) : i \in 1..Len(names)} >>
               /\ UNCHANGED bestSellerError
  /\ bestSellerLoading' = FALSE
  /\ viewMode' = "bestSellers"
  /\ bsPc' = "idle"
  /\ resetWhileFetching' = FALSE
  /\ UNCHANGED <<fetchesIssued, filterVars, sortVars, loadVars>>
  /\ Rerender

Next ==
  \/ loadDataOk
  \/ loadDataFail
  \/ setSearchTerm
  \/ toggleGenre
  \/ toggleRegion
  \/ setPriceMin
  \/ setPriceMax
  \/ setSelectedSponsored
  \/ setSelectedIndexed
  \/ setSelectedDoFollow
  \/ handleSort
  \/ setExpandedFilters
  \/ resetFilters
  \/ handleResetAll
  \/ bestSellersClick
  \/ bestSellersFetchOk
  \/ bestSellersFetchFail

Spec == Init /\ [][Next]_vars

\* The portal when the documents it fetches are not vetted before they are
\* served.
NextAnyDocument ==
  \/ loadDataUnvalidated
  \/ bestSellersFetchUnvalidated
  \/ Next

SpecAnyDocument == Init /\ [][NextAnyDocument]_vars

\* The portal when every request that was sent settles: the promise of fetch
\* resolves or rejects, and the handler waiting for it is resumed.  Both
\* conditions are weak fairness of the settling steps; the second is written
\* out, with "a curated-list request is pending" (bsPc = "fetching") for the
\* enabledness of its settling steps.
SpecFetchesSettle ==
  /\ Init /\ [][Next]_vars
  /\ WF_vars(loadDataOk \/ loadDataFail)
  /\ \/ []<>(bsPc # "fetching")
     \/ []<><<bestSellersFetchOk \/ bestSellersFetchFail>>_vars


\* ================================================================ claims
ToSet(seq) == {seq[i] : i \in 1..Len(seq)}
Shown == filteredPublications(Render)
Visible == ToSet(Shown)
Base == ToSet(basePublications(Render))
Names(seq) == [i \in 1..Len(seq) |-> seq[i].name]
\* Position of a record in the catalog document.
CatalogIndex(p) ==
  CHOOSE i \in 1..Len(data[1].publications) : data[1].publications[i] = p

\* The filter stages as the specification words them.
SearchKeeps(p) ==
  \/ searchTerm = <<>>
  \/ StrIncludes(ToLowerCase(p.name), ToLowerCase(searchTerm))
  \/ \E g \in ToSet(p.genres) : StrIncludes(ToLowerCase(g), ToLowerCase(searchTerm))
GenreKeeps(p) ==
  selectedGenres = <<>> \/ ToSet(p.genres) \cap ToSet(selectedGenres) # {}
RegionKeeps(p) ==
  selectedRegions = <<>> \/ p.region \in ToSet(selectedRegions)
PriceKeeps(p) == priceMin <= p.price /\ p.price <= priceMax
ToggleKeeps(toggle, field) ==
  toggle = "" \/ (toggle = "Yes" /\ field = TRUE) \/ (toggle = "No" /\ field = FALSE)
TogglesKeep(p) ==
  /\ ToggleKeeps(selectedSponsored, p.sponsored)
  /\ ToggleKeeps(selectedIndexed, p.indexed)
  /\ ToggleKeeps(selectedDoFollow, p.do_follow)

\* The comparable value of a record under the current sort column, and its order.
KeyLessBy(column, a, b) ==
  CASE column \in {"price", "da"} -> a[column] < b[column]
    [] column \in {"region", "name"} ->
         StrLess(ToLowerCase(a[column]), ToLowerCase(b[column]))
    [] column = "tat" -> parseTAT(a.tat) < parseTAT(b.tat)
KeyLess(a, b) == KeyLessBy(sortColumn, a, b)
KeyEqual(a, b) == ~KeyLess(a, b) /\ ~KeyLess(b, a)

\* C1: the visible result is a permutation of exactly the base-set records that
\* pass every filter stage; the stages give the same records in any order of
\* application, and the result is in sorted order (the sort ran last).
C1_VisibleIsFilteredBase ==
  LET shown == Shown
      visible == ToSet(shown)
  IN
    LET base == basePublications(Render)
        forward == SelectSeq(SelectSeq(SelectSeq(SelectSeq(SelectSeq(base,
                     SearchKeeps), GenreKeeps), RegionKeeps), PriceKeeps), TogglesKeep)
        backward == SelectSeq(SelectSeq(SelectSeq(SelectSeq(SelectSeq(base,
                     TogglesKeep), PriceKeeps), RegionKeeps), GenreKeeps), SearchKeeps)
    IN /\ forward = backward
       /\ visible = ToSet(forward)
       /\ Len(shown) = Len(forward)
       /\ \A i \in 1..(Len(shown) - 1) :
            IF sortDirection = "asc" THEN ~KeyLess(shown[i + 1], shown[i])
            ELSE ~KeyLess(shown[i], shown[i + 1])

C1_Witness ==
  /\ data # Null
  /\ searchTerm # <<>>
  /\ Len(Shown) >= 2
  /\ Len(Shown) < baseCount(Render)
  /\ Shown # SelectSeq(basePublications(Render), LAMBDA p : PassesFilter(Render, p))

\* C2: the end-to-end scenario: region USA sorted by price descending shows
\* Forbes, Wired; with sponsored = Yes in addition it shows Forbes alone.
ScenarioState(sponsoredToggle) ==
  /\ data = <<ScenarioCatalog>>
  /\ viewMode = "all"
  /\ searchTerm = <<>> /\ selectedGenres = <<>>
  /\ selectedRegions = <<sUSA>>
  /\ priceMin = DefaultPriceMin /\ priceMax = DefaultPriceMax
  /\ selectedSponsored = sponsoredToggle
  /\ selectedIndexed = "" /\ selectedDoFollow = ""
  /\ sortColumn = "price" /\ sortDirection = "desc"

C2_EndToEnd ==
  /\ ScenarioState("") => Names(Shown) = <<sForbes, sWired>>
  /\ ScenarioState("Yes") => Names(Shown) = <<sForbes>>

C2_Witness == ScenarioState("Yes") /\ Len(Shown) = 1

\* C3: the genre stage keeps a record iff the selection is empty or the record
\* carries at least one selected genre (OR semantics), and the visible result
\* holds exactly the base records that stage and the other stages keep.
C3_GenreOrSemantics ==
  LET shown == Shown
      visible == ToSet(shown)
  IN
    \A p \in Base :
      /\ MatchesGenres(Render, p) <=> GenreKeeps(p)
      /\ p \in visible <=>
           (GenreKeeps(p) /\ SearchKeeps(p) /\ RegionKeeps(p) /\ PriceKeeps(p)
            /\ TogglesKeep(p))

C3_Witness ==
  /\ Len(selectedGenres) = 2
  /\ \E p \in Visible :
       /\ Cardinality(ToSet(p.genres)) = 2
       /\ Cardinality(ToSet(p.genres) \cap ToSet(selectedGenres)) = 1
  /\ \E p \in Base : p \notin Visible

\* C4 as worded: a base record priced at priceMin or at priceMax is always in
\* the visible result, whatever the other constraints are.
C4_Original ==
  \A p \in Base : (p.price = priceMin \/ p.price = priceMax) => p \in Visible

\* C4 amended: the price stage keeps exactly the records with
\* priceMin <= price <= priceMax, so with priceMin <= priceMax a base record
\* priced at either bound is visible iff the other stages keep it.
C4_InclusiveBounds ==
  LET shown == Shown
      visible == ToSet(shown)
  IN
    \A p \in Base :
      /\ MatchesPrice(Render, p) <=> PriceKeeps(p)
      /\ (priceMin <= priceMax /\ (p.price = priceMin \/ p.price = priceMax)) =>
           (p \in visible <=>
              (SearchKeeps(p) /\ GenreKeeps(p) /\ RegionKeeps(p) /\ TogglesKeep(p)))

C4_Witness ==
  /\ priceMin > DefaultPriceMin /\ priceMax < DefaultPriceMax
  /\ \E p \in Visible : p.price = priceMin /\ p.price = priceMax
  /\ \E p \in Base : p \notin Visible

\* C5: each toggle, on its own dimension, excludes nothing while unset and,
\* set to Yes / No, excludes exactly the records whose boolean differs.
C5_TriStateNeutrality ==
  LET shown == Shown
      visible == ToSet(shown)
  IN
    \A p \in Base :
      /\ MatchesSponsored(Render, p) <=> ToggleKeeps(selectedSponsored, p.sponsored)
      /\ MatchesIndexed(Render, p) <=> ToggleKeeps(selectedIndexed, p.indexed)
      /\ MatchesDoFollow(Render, p) <=> ToggleKeeps(selectedDoFollow, p.do_follow)
      /\ p \in visible <=>
           (TogglesKeep(p) /\ SearchKeeps(p) /\ GenreKeeps(p) /\ RegionKeeps(p)
            /\ PriceKeeps(p))

C5_Witness ==
  /\ selectedSponsored = "No" /\ selectedIndexed = "Yes" /\ selectedDoFollow = ""
  /\ Visible # {}
  /\ \E p \in Base : p.sponsored /\ p.indexed
  /\ \E p \in Base : ~p.sponsored /\ ~p.indexed

\* The step changes the one field f of the render snapshot and nothing else.
OnlyChanges(f) ==
  /\ NextRender[f] # Render[f]
  /\ \A g \in DOMAIN Render \ {f} : NextRender[g] = Render[g]

\* A step of toggleGenre that ticks one more genre and changes nothing else.
AddsGenre ==
  /\ OnlyChanges("selectedGenres")
  /\ \E i \in 1..Len(selectedGenres') :
       /\ selectedGenres' = Append(selectedGenres, selectedGenres'[i])
       /\ ~ArrIncludes(selectedGenres, selectedGenres'[i])

\* C6 as worded: ticking one more genre never increases the visible count.
C6_Original ==
  [][AddsGenre =>
       Len(filteredPublications(NextRender)) <= Len(filteredPublications(Render))]_vars

\* C6 amended: ticking the first genre never increases the visible result, and
\* ticking a further genre while one is already ticked never decreases it.
C6_GenreSelectionEffect ==
  [][AddsGenre =>
       IF selectedGenres = <<>>
       THEN ToSet(filteredPublications(NextRender)) \subseteq Visible
       ELSE Visible \subseteq ToSet(filteredPublications(NextRender))]_vars

C6_Witness ==
  /\ Len(selectedGenres) = 2
  /\ \E p \in Visible : ~ArrIncludes(p.genres, selectedGenres[1])
  /\ \E p \in Visible : ArrIncludes(p.genres, selectedGenres[1])
  /\ \E p \in Base : p \notin Visible

\* A step that narrows one constraint and changes nothing else.
Narrows ==
  \/ OnlyChanges("priceMin") /\ priceMin' > priceMin
  \/ OnlyChanges("priceMax") /\ priceMax' < priceMax
  \/ OnlyChanges("selectedSponsored") /\ selectedSponsored = ""
  \/ OnlyChanges("selectedIndexed") /\ selectedIndexed = ""
  \/ OnlyChanges("selectedDoFollow") /\ selectedDoFollow = ""
  \/ OnlyChanges("searchTerm") /\ StrIncludes(searchTerm', searchTerm)

\* C7: raising priceMin, lowering priceMax, setting an unset toggle, or
\* extending the search text to one that contains the previous text leaves a
\* visible result that is a subset of the previous one, hence no larger.
C7_NarrowingShrinks ==
  [][Narrows =>
       /\ ToSet(filteredPublications(NextRender)) \subseteq Visible
       /\ Len(filteredPublications(NextRender)) <= Len(Shown)]_vars

C7_Witness ==
  /\ searchTerm = sTermBu
  /\ priceMin > DefaultPriceMin
  /\ Visible # {}
  /\ \E p \in Base : p \notin Visible /\ ~PriceKeeps(p)
  /\ \E p \in Base : p \notin Visible /\ PriceKeeps(p)

\* C8: two visible records with equal comparable sort keys stand in the order
\* they have in the catalog, for every sort column and both directions.
C8_SortStability ==
  LET shown == Shown
  IN
    \A i, j \in 1..Len(shown) :
      (i < j /\ KeyEqual(shown[i], shown[j])) =>
        CatalogIndex(shown[i]) < CatalogIndex(shown[j])

C8_Witness ==
  /\ sortDirection = "desc"
  /\ \E i, j \in 1..Len(Shown) :
       /\ i < j /\ KeyEqual(Shown[i], Shown[j])
       /\ \E k \in 1..Len(Shown) : KeyLess(Shown[k], Shown[i])
       /\ \E k \in 1..Len(Shown) : KeyLess(Shown[j], Shown[k])

\* C9: under the sort columns price, da, region and name the comparable values
\* (numbers as numbers, strings lower-cased) are non-decreasing along the
\* visible result for asc and non-increasing for desc.  The page has sort
\* controls for price and name only (and tat); for da and region the
\* comparator is applied to the query state with that column put in.
C9_SortedByKey ==
  /\ LET shown == Shown
     IN sortColumn \in {"price", "name"} =>
          \A i \in 1..(Len(shown) - 1) :
            IF sortDirection = "asc" THEN ~KeyLess(shown[i + 1], shown[i])
            ELSE ~KeyLess(shown[i], shown[i + 1])
  /\ \A column \in {"da", "region"} :
       LET sorted == filteredPublications([Render EXCEPT !.sortColumn = column])
       IN \A i \in 1..(Len(sorted) - 1) :
            IF sortDirection = "asc"
            THEN ~KeyLessBy(column, sorted[i + 1], sorted[i])
            ELSE ~KeyLessBy(column, sorted[i], sorted[i + 1])

C9_Witness ==
  /\ sortColumn = "name" /\ sortDirection = "asc"
  /\ Len(Shown) >= 3
  /\ \E i \in 1..(Len(Shown) - 1) :
       /\ KeyLess(Shown[i], Shown[i + 1])
       /\ StrLess(Shown[i + 1].name, Shown[i].name)

\* Turnaround texts the duration rules are checked on.
TatTexts ==
  {sEmpty, s3days, s2weeks, s1month, s40months, sASAP, sSameDay, s10Days, sWeekdays}

\* The duration rules as the specification words them.
HasWord(l, w) ==
  \E i \in 1..Len(l) : i + Len(w) - 1 <= Len(l) /\ SubSeq(l, i, i + Len(w) - 1) = w
RECURSIVE Pow10(_)
Pow10(n) == IF n = 0 THEN 1 ELSE 10 * Pow10(n - 1)
\* The first embedded integer of l, or -1 when l has no digit.
EmbeddedInteger(l) ==
  LET digits == {i \in 1..Len(l) : IsDigit(l[i])}
  IN IF digits = {} THEN -1
     ELSE LET f == CHOOSE i \in digits : \A j \in digits : i <= j
              e == CHOOSE j \in f..Len(l) :
                     /\ \A k \in f..j : k \in digits
                     /\ (j + 1) \notin digits
              Digit(k) == (l[k] - 48) * Pow10(e - k)
              Sum[k \in f..e] == IF k = f THEN Digit(k) ELSE Sum[k - 1] + Digit(k)
          IN Sum[e]
TatRule(t) ==
  LET l == ToLowerCase(t)
      n == EmbeddedInteger(l)
  IN CASE t = <<>> -> 999
       [] t # <<>> /\ HasWord(l, sDay) -> IF n = -1 THEN 1 ELSE n
       [] t # <<>> /\ ~HasWord(l, sDay) /\ HasWord(l, sWeek) ->
            IF n = -1 THEN 7 ELSE n * 7
       [] t # <<>> /\ ~HasWord(l, sDay) /\ ~HasWord(l, sWeek) /\ HasWord(l, sMonth) ->
            IF n = -1 THEN 30 ELSE n * 30
       [] OTHER -> 999

\* C10: parseTAT follows the duration rules (empty -> 999; "day" -> first
\* integer or 1; else "week" -> 7 times it or 7; else "month" -> 30 times it or
\* 30; else 999), on the named examples and on every text of the catalog.
C10_DurationParsing ==
  /\ parseTAT(s3days) = 3
  /\ parseTAT(s2weeks) = 14
  /\ parseTAT(s1month) = 30
  /\ parseTAT(sEmpty) = 999
  /\ parseTAT(sASAP) = 999
  /\ \A t \in TatTexts : parseTAT(t) = TatRule(t)
  /\ data # Null =>
       \A p \in ToSet(data[1].publications) : parseTAT(p.tat) = TatRule(p.tat)

C10_Witness ==
  /\ data = <<MixedCatalog>>
  /\ sortColumn = "tat" /\ sortDirection = "asc"
  /\ Len(Shown) = 5
  /\ [i \in 1..5 |-> parseTAT(Shown[i].tat)] = <<2, 10, 999, 999, 1200>>

\* A duration text the rules give a number of days: it is not empty and holds
\* one of the words day, week, month.
IsParseable(t) ==
  t # <<>> /\ \E w \in {sDay, sWeek, sMonth} : HasWord(ToLowerCase(t), w)

\* C11: with sort column tat and direction asc, every visible record whose
\* duration text is empty or unparseable stands after every visible record
\* whose duration text is parseable, whatever the parseable durations are.
C11_UnparseableLastAscending ==
  (sortColumn = "tat" /\ sortDirection = "asc") =>
    \A i, j \in 1..Len(Shown) :
      (~IsParseable(Shown[i].tat) /\ IsParseable(Shown[j].tat)) => j < i

\* C12: with sort column tat, in both directions, every visible record with a
\* missing / empty duration text stands after every visible record whose
\* duration text is parseable.
C12_EmptyLastBothDirections ==
  sortColumn = "tat" =>
    \A i, j \in 1..Len(Shown) :
      (Shown[i].tat = <<>> /\ IsParseable(Shown[j].tat)) => j < i

\* C13: the array the table is given is the pipeline's value on the current
\* catalog, query state, view mode and curated index, whatever steps led
\* there (a value kept by useMemo is never one computed for other inputs), and
\* the comparator is a consistent order on the base set, so the sort has one
\* outcome: the same inputs give the same ordered result.
C13_Determinism ==
  /\ memoFiltered = Shown
  /\ \A a, b \in Base : compare(Render, a, b) = -compare(Render, b, a)
  /\ \A a, b, c \in Visible :
       (SortLess(Render, a, b) /\ SortLess(Render, b, c)) => SortLess(Render, a, c)

C13_Witness ==
  /\ bestSellerLoading
  /\ sortColumn = "name" /\ sortDirection = "asc"
  /\ Len(Shown) >= 3
  /\ \E i \in 1..(Len(Shown) - 1) : KeyEqual(Shown[i], Shown[i + 1])

\* Names the canonical key is checked on.
NameTexts ==
  {sEmpty, sVentureBeat, sVenture_Beat, sRollingAmpStone, sRollingAndStone,
   sPaddedName, sFORBES, sVentureDashBeat, sRandB, sForbes, sWired, sBBC, sApple,
   sZed, sZED}

\* The five steps as the specification words them, each a left-to-right pass.
\* 1. a space at every lowercase-to-uppercase boundary.
KeyStep1(s) ==
  LET F[i \in 0..Len(s)] ==
        IF i = 0 THEN <<>>
        ELSE F[i - 1] \o (IF i > 1 /\ s[i - 1] \in 97..122 /\ s[i] \in 65..90
                          THEN <<32, s[i]>> ELSE <<s[i]>>)
  IN F[Len(s)]
\* 2. lowercase.
KeyStep2(s) == [i \in 1..Len(s) |-> IF s[i] \in 65..90 THEN s[i] + 32 ELSE s[i]]
\* 3. '&' becomes the word "and".
KeyStep3(s) ==
  LET F[i \in 0..Len(s)] ==
        IF i = 0 THEN <<>>
        ELSE F[i - 1] \o (IF s[i] = 38 THEN <<97, 110, 100>> ELSE <<s[i]>>)
  IN F[Len(s)]
\* 4. and 5. what is left are the maximal runs of a-z and 0-9, joined by
\* single spaces, with no space at either end.
KeyStep45(s) ==
  LET Alnum(c) == c \in 97..122 \/ c \in 48..57
      F[i \in 0..Len(s)] ==
        IF i = 0 THEN <<>>
        ELSE IF ~Alnum(s[i]) THEN F[i - 1]
        ELSE IF i > 1 /\ ~Alnum(s[i - 1]) /\ F[i - 1] # <<>>
             THEN F[i - 1] \o <<32, s[i]>>
             ELSE F[i - 1] \o <<s[i]>>
  IN F[Len(s)]
KeyRule(s) == KeyStep45(KeyStep3(KeyStep2(KeyStep1(s))))

\* normalizeName agrees with the five steps on NameTexts and on the examples.
KeyRuleOnNameTexts ==
  /\ \A s \in NameTexts : normalizeName(s) = KeyRule(s)
  /\ normalizeName(sVentureBeat) = normalizeName(sVenture_Beat)
  /\ normalizeName(sRollingAmpStone) = normalizeName(sRollingAndStone)

\* C14: normalizeName computes the five-step canonical key; the curated index
\* holds the keys of the curated names and a catalog record is matched by the
\* key of its name; "VentureBeat" and "Venture Beat" have one key, and so have
\* "Rolling & Stone" and "rolling and stone".
C14_CanonicalKey ==
  /\ KeyRuleOnNameTexts
  /\ bestSellerSet # Null =>
       \/ bestSellerSet[1] = {}
       \/ \E names \in CuratedLists :
            bestSellerSet[1] = {KeyRule(names[i]) : i \in 1..Len(names)}
  /\ (data # Null /\ bestSellerSet # Null /\ viewMode = "bestSellers") =>
       LET base == Base
       IN \A p \in ToSet(data[1].publications) :
            p \in base <=> KeyRule(p.name) \in bestSellerSet[1]

C14_Witness ==
  /\ viewMode = "bestSellers"
  /\ bestSellerSet # Null
  /\ \E p, q \in Base :
       /\ p.name = sVentureBeat /\ q.name = sVenture_Beat
       /\ KeyRule(sVentureDashBeat) \in bestSellerSet[1]
  /\ \E p \in ToSet(data[1].publications) : p \notin Base

\* The catalog records the curated index names, as a set.
CuratedRecords ==
  {p \in ToSet(data[1].publications) : KeyRule(p.name) \in bestSellerSet[1]}

\* C15: with a catalog loaded, the base set is the catalog records whose key
\* is in the curated index, in catalog order, when the view mode is
\* bestSellers and the index has been built; in every other case it is the
\* full catalog in catalog order.
C15_BaseSetSelection ==
  data # Null =>
    LET base == basePublications(Render)
    IN IF viewMode = "bestSellers" /\ bestSellerSet # Null
       THEN /\ ToSet(base) = CuratedRecords
            /\ \A i, j \in 1..Len(base) :
                 i < j => CatalogIndex(base[i]) < CatalogIndex(base[j])
       ELSE base = data[1].publications

C15_Witness ==
  /\ data # Null
  /\ viewMode = "all"
  /\ bestSellerSet # Null
  /\ CuratedRecords # {}
  /\ CuratedRecords # ToSet(data[1].publications)
  /\ basePublications(Render) = data[1].publications

\* The records of the catalog (none while no catalog is loaded), and the keys
\* of the curated index that no catalog record has.
CatalogRecords == IF data = Null THEN {} ELSE ToSet(data[1].publications)
UnmatchedKeys ==
  {k \in bestSellerSet[1] : \A p \in CatalogRecords : KeyRule(p.name) # k}

\* C16 as stated: whenever the curated index has been built, the missing
\* count equals the number of index keys that no catalog record has.
C16_Original ==
  bestSellerSet # Null => bestSellerMissingCount(Render) = Cardinality(UnmatchedKeys)

\* C16: when the view mode is bestSellers, the curated index has been built
\* and a catalog is loaded, the missing count equals the number of index keys
\* that no catalog record has; in every other case the missing count is 0.
C16_MissingCount ==
  bestSellerMissingCount(Render) =
    IF viewMode = "bestSellers" /\ bestSellerSet # Null /\ data # Null
    THEN Cardinality(UnmatchedKeys)
    ELSE 0

C16_Witness ==
  /\ viewMode = "bestSellers" /\ bestSellerSet # Null /\ data # Null
  /\ bestSellerMissingCount(Render) = 2
  /\ Cardinality(bestSellerSet[1]) = 3

\* The curated lists the index may have been built from (none of the names
\* when the fetch failed), and for a list its names that no catalog record
\* has after normalization.
BuiltFrom ==
  {names \in CuratedLists \cup {<<>>} :
     bestSellerSet[1] = {KeyRule(names[i]) : i \in 1..Len(names)}}
NotInCatalog(names) ==
  {i \in 1..Len(names) : \A p \in CatalogRecords : KeyRule(p.name) # KeyRule(names[i])}
InCuratedView == viewMode = "bestSellers" /\ bestSellerSet # Null /\ data # Null

\* C17 as stated: for a curated list of N names of which M do not appear in
\* the catalog, the missing count is M and the curated base set has exactly
\* N - M records.
C17_Original ==
  InCuratedView =>
    \A names \in BuiltFrom :
      /\ bestSellerMissingCount(Render) = Cardinality(NotInCatalog(names))
      /\ baseCount(Render) = Len(names) - Cardinality(NotInCatalog(names))

\* No two names of the list have one key, and no two catalog records have
\* one key.
OneToOne(names) ==
  /\ \A i, j \in 1..Len(names) : KeyRule(names[i]) = KeyRule(names[j]) => i = j
  /\ \A p, q \in CatalogRecords : KeyRule(p.name) = KeyRule(q.name) => p = q

\* C17: in curated view the base set holds every catalog record whose key is
\* in the index and the missing count is the number of index keys without a
\* catalog record; when the N curated names have N different keys and no two
\* catalog records share a key, M names missing gives missing count M and a
\* base set of exactly N - M records.
C17_Reconciliation ==
  InCuratedView =>
    LET size == baseCount(Render)
        missing == bestSellerMissingCount(Render)
    IN /\ size = Cardinality(CuratedRecords)
       /\ missing = Cardinality(UnmatchedKeys)
       /\ \A names \in BuiltFrom :
            OneToOne(names) =>
              /\ missing = Cardinality(NotInCatalog(names))
              /\ size = Len(names) - Cardinality(NotInCatalog(names))

C17_Witness ==
  /\ InCuratedView
  /\ \E names \in BuiltFrom :
       /\ OneToOne(names)
       /\ Len(names) = 3
       /\ Cardinality(NotInCatalog(names)) = 2
       /\ baseCount(Render) = 1

\* The document that was loaded has both top-level keys.
WellFormed(doc) == HasKey(doc, "publications") /\ HasKey(doc, "filters")

\* C18: whatever the query state and whatever the records of a loaded
\* catalog, records without some field included, computing the visible
\* result never throws.
C18_QueryNeverThrows ==
  (data # Null /\ WellFormed(data[1])) => ~QueryThrows(Render)

\* C19: when the catalog load has failed (source unreachable, body
\* unparseable, or document without the key publications or filters) the
\* loading indicator is resolved and the portal is in a usable empty state:
\* no fault, zero base records, zero visible records.
C19_LoadFailureDegradesSafely ==
  (~loading /\ (data = Null \/ ~WellFormed(data[1]))) =>
    /\ ~crashed
    /\ baseCount(Render) = 0
    /\ Len(Shown) = 0

\* C20: the curated index is absent until a Best Sellers press has started
\* the fetch, and once it is set no later step replaces, clears or rebuilds
\* it.
C20_IndexLifecycle ==
  [][ /\ (bestSellerSet = Null /\ bestSellerSet' # Null) => bsPc = "fetching"
      /\ bestSellerSet # Null => bestSellerSet' = bestSellerSet ]_vars

C20_Witness ==
  /\ bestSellerSet # Null
  /\ bestSellerSet[1] # {}
  /\ viewMode = "all"
  /\ sortColumn = "name"
  /\ ~bestSellerLoading

\* -------------------------------------------------------------- C21
\* C21: however presses of 'Best Sellers' and the completion of the request
\* interleave, at most one request for the curated list is in flight and none
\* is sent twice: a request is in flight exactly while bestSellerLoading
\* disables the button, the index is still null then, and the number of
\* requests sent in a session never exceeds one.
C21_SingleFetch ==
  /\ fetchesIssued <= 1
  /\ (bsPc = "fetching") <=> bestSellerLoading
  /\ bsPc = "fetching" => (bestSellerSet = Null /\ fetchesIssued = 1)
  /\ bestSellerSet # Null => fetchesIssued = 1

\* A request is in flight and 'Reset' has been used in the meantime.
C21_Witness ==
  /\ bsPc = "fetching"
  /\ bestSellerLoading
  /\ fetchesIssued = 1
  /\ resetWhileFetching

\* -------------------------------------------------------------- C22
\* C22: a failed request for the curated list is reported once and never
\* retried: the step that sets the error message also sets the index to the
\* empty set and enters the curated view, whose base set is then empty; and
\* once the index is non-null no step sends another request.
C22_FailureNotRetried ==
  [][ /\ (bsPc = "fetching" /\ bestSellerError' # Null) =>
           /\ bestSellerError' = <<"Could not load best sellers list.">>
           /\ bestSellerSet' = << {} >>
           /\ viewMode' = "bestSellers"
           /\ data' # Null => basePublications(NextRender) = <<>>
      /\ bestSellerSet # Null => fetchesIssued' = fetchesIssued
    ]_vars

\* The request failed over a loaded catalog: the notice is up, the curated
\* view is on and shows nothing of a catalog that has records.
C22_Witness ==
  /\ bestSellerError # Null
  /\ bestSellerSet = << {} >>
  /\ viewMode = "bestSellers"
  /\ data # Null
  /\ Len(data[1].publications) > 0
  /\ Len(Shown) = 0
  /\ fetchesIssued = 1

\* -------------------------------------------------------------- C23
\* C23: a failed load is surfaced as a persistent notice: the step in which
\* the catalog load fails leaves an error notice on the page, and a notice
\* that is on the page stays there in every later state.  The only error
\* notice the page renders is the text of bestSellerError.
C23_NoticePersists ==
  [][ /\ (loading /\ ~loading' /\ data' = Null) => bestSellerError' # Null
      /\ bestSellerError # Null => bestSellerError' # Null
    ]_vars

\* The second half of C23 alone: a curated-list notice that is up stays up.
C23_CuratedNoticeStays ==
  [][ bestSellerError # Null => bestSellerError' # Null ]_vars

\* -------------------------------------------------------------- C24
\* C24: the catalog is read-only after load: in every state the array object
\* data.publications holds in memory the very records setData stored, every
\* field of each and in the loaded order, and no step (filter, sort, view
\* mode, reset, curated fetch) stores another document in data; the in-place
\* sort of the visible result does not reach data.publications, in the view
\* of all records (where basePublications is data.publications itself) and in
\* the curated view alike.
C24_CatalogReadOnly ==
  /\ [](data # Null => catalogArray = data[1].publications)
  /\ [][data # Null => data' = data]_vars

\* basePublications is data.publications itself, nothing is filtered out of
\* it, and the sort has put the visible result in an order that is not the
\* catalog's, while the array in memory still is the loaded one.
C24_Witness ==
  /\ data # Null
  /\ basePublicationsRef(Render) = CatalogRef
  /\ sortedArrayRef(Render) # CatalogRef
  /\ LET shown == memoFiltered
     IN /\ Len(shown) = Len(data[1].publications)
        /\ Len(shown) > 1
        /\ shown # data[1].publications
        /\ catalogArray = data[1].publications

\* -------------------------------------------------------------- C25
\* C25: building the curated index fails on no condition: whenever the
\* request resolves with a document (an empty list, names that is not an
\* array, entries that are garbage), the page is left with a key set and
\* without an error.
C25_BuildNeverFails ==
  [][ bestSellersFetchUnvalidated =>
        (bestSellerSet' # Null /\ bestSellerError' = Null) ]_vars

\* -------------------------------------------------------------- C26
\* C26: 'Reset' (handleResetAll) empties the search text and the selected
\* genres and regions, sets the price range to 0..85000, unsets the three
\* toggles, sets the view mode to 'all' and the curated error to null, and
\* leaves the sort key, the sort direction, the catalog and the cached
\* curated index as they were; 'Reset Filters' (resetFilters) does the same
\* to the filters and leaves the view mode and the curated error as they
\* were, too.  (A step of either handler makes the assignments of
\* ResetFilterVars; testing them first spares evaluating the handler on the
\* steps that do not.)
C26_ResetFrame ==
  [][ /\ (ResetFilterVars /\ handleResetAll) =>
           /\ searchTerm' = <<>>
           /\ selectedGenres' = <<>> /\ selectedRegions' = <<>>
           /\ priceMin' = 0 /\ priceMax' = 85000
           /\ selectedSponsored' = "" /\ selectedIndexed' = ""
           /\ selectedDoFollow' = ""
           /\ viewMode' = "all"
           /\ bestSellerError' = Null
           /\ UNCHANGED <<sortColumn, sortDirection, data, bestSellerSet>>
      /\ (ResetFilterVars /\ resetFilters) =>
           /\ searchTerm' = <<>>
           /\ selectedGenres' = <<>> /\ selectedRegions' = <<>>
           /\ priceMin' = 0 /\ priceMax' = 85000
           /\ selectedSponsored' = "" /\ selectedIndexed' = ""
           /\ selectedDoFollow' = ""
           /\ UNCHANGED <<sortColumn, sortDirection, data, bestSellerSet,
                          viewMode, bestSellerError>>
    ]_vars

\* After 'Reset' out of the curated view: the filters are at their defaults
\* and the view is 'all', while the sort chosen before and the cached index
\* are still there.
C26_Witness ==
  /\ data # Null
  /\ viewMode = "all"
  /\ bestSellerSet # Null
  /\ bestSellerSet # << {} >>
  /\ bestSellerError = Null
  /\ sortColumn = "name" /\ sortDirection = "asc"
  /\ searchTerm = <<>> /\ selectedGenres = <<>> /\ selectedRegions = <<>>
  /\ priceMin = 0 /\ priceMax = 85000
  /\ selectedSponsored = "" /\ selectedIndexed = "" /\ selectedDoFollow = ""

\* -------------------------------------------------------------- C27
\* C27: in the initial state and right after 'Reset', with a catalog loaded
\* whose records all carry a non-negative price, no record is excluded: with
\* every filter at its default and the view mode 'all' the visible result
\* holds every catalog record, and the count shown is the catalog size.
C27_NothingExcludedAtDefaults ==
  ( /\ data # Null /\ WellFormed(data[1]) /\ ~crashed
    /\ viewMode = "all"
    /\ searchTerm = <<>> /\ selectedGenres = <<>> /\ selectedRegions = <<>>
    /\ priceMin = DefaultPriceMin /\ priceMax = DefaultPriceMax
    /\ selectedSponsored = "" /\ selectedIndexed = "" /\ selectedDoFollow = ""
    /\ \A i \in 1..Len(data[1].publications) :
         /\ HasKey(data[1].publications[i], "price")
         /\ data[1].publications[i].price >= 0 )
  => LET shown == Shown
     IN /\ Len(shown) = Len(data[1].publications)
        /\ ToSet(Ids(shown)) = ToSet(Ids(data[1].publications))

\* -------------------------------------------------------------- C28
\* C28: after 'Reset' the view mode stays 'all' until the next press of
\* 'Best Sellers', in every interleaving: while a request started by an
\* earlier press is pending and 'Reset' has been used since (the button is
\* disabled then, so no press can happen), no step leaves the view 'all';
\* and with no request pending only a press leaves it.
C28_ViewStaysAllAfterReset ==
  [][ /\ resetWhileFetching => viewMode' = "all"
      /\ (bsPc = "idle" /\ viewMode = "all" /\ viewMode' # "all") =>
           bestSellersClick
    ]_vars

\* -------------------------------------------------------------- C29
\* C29: in every reachable state the counts of "Showing X of Y" satisfy
\* 0 <= X <= Y <= catalog size, where Y is the size of the base set and X the
\* size of the visible result; every visible record is a record of the base
\* set, and no record is visible twice.
C29_CountsOrdered ==
  LET shown == memoFiltered
      base == basePublications(Render)
      X == Len(shown)
      Y == baseCount(Render)
      size == IF data = Null THEN 0 ELSE Len(data[1].publications)
  IN /\ 0 <= X /\ X <= Y /\ Y <= size
     /\ Y = Len(base)
     /\ ToSet(shown) \subseteq ToSet(base)
     /\ Cardinality(ToSet(Ids(shown))) = X

\* The curated view with a filter on top: fewer records are visible than the
\* base set holds, and the base set is smaller than the catalog.
C29_Witness ==
  /\ data # Null
  /\ viewMode = "bestSellers"
  /\ LET X == Len(memoFiltered)
         Y == baseCount(Render)
     IN /\ 0 < X /\ X < Y
        /\ Y < Len(data[1].publications)

\* -------------------------------------------------------------- C30
\* C30: both one-time loads end their loading state once the request
\* settles.  The step that settles the catalog request sets loading to false
\* and no step sets it again; the step that settles a curated-list request
\* sets bestSellerLoading to false and leaves a non-null index, so that the
\* button (disabled while bestSellerLoading) is enabled whenever no request is
\* pending.  When requests settle, the spinner is eventually gone for good and
\* every curated-list load is followed by an enabled button and an index.
C30_LoadsTerminate ==
  /\ [][ /\ loading => ~loading'
         /\ ~loading => ~loading'
         /\ (bsPc = "fetching" /\ bsPc' = "idle") =>
              (~bestSellerLoading' /\ bestSellerSet' # Null)
         /\ bsPc' = "idle" => ~bestSellerLoading'
       ]_vars
  /\ <>[](~loading)
  /\ bestSellerLoading ~> (~bestSellerLoading /\ bestSellerSet # Null)

\* The catalog request failed and the curated-list request failed after it:
\* neither loading flag is left set, and the index is there.
C30_Witness ==
  /\ ~loading
  /\ data = Null
  /\ fetchesIssued = 1
  /\ bsPc = "idle"
  /\ ~bestSellerLoading
  /\ bestSellerSet # Null
  /\ bestSellerError # Null

====
